---- MODULE Spec2Model ----
(***************************************************************************)
(* Model of freqplot.py: the Bode, Nyquist and Gang-of-Four renderers and  *)
(* the default frequency range selection inside bode.                      *)
(*                                                                         *)
(* Numbers.  A pole or zero is a complex number <<re, im>> in tenths, so   *)
(* <<-10, 0>> is the pole -1.  np.abs is carried as the squared magnitude  *)
(* in hundredths (re^2 + im^2), which orders magnitudes as np.abs does and *)
(* lets floor(log10 |p|) and ceil(log10 |p|) be computed exactly.          *)
(* A frequency is [x |-> a, k |-> b], the value 10^(a/49) * (2*pi)^b:      *)
(* the points of logspace(lo, hi) are 49*lo + i*(hi - lo), i = 0..49, and  *)
(* a division by 2*pi lowers k by one.                                     *)
(*                                                                         *)
(* Plotting library.  What plt.subplot and plt.hold do depends on the      *)
(* matplotlib the module runs on: before 3.0 plt.hold exists, from 3.0 it  *)
(* does not and the call raises AttributeError; plt.subplot removes the    *)
(* axes that overlap the one it selects in the releases that document that *)
(* rule and keeps them in the others.  lib records which library a run     *)
(* has; it is chosen at the start and never changes.                       *)
(***************************************************************************)
EXTENDS Integers, Sequences, FiniteSets

VARIABLES plt, queries, last, ncalls, lib

vars == <<plt, queries, last, ncalls, lib>>

\* scipy.logspace samples 50 points when no count is given (lines 111, 181, 223).
NumPoints == 50

\* At most MaxCalls calls are made, and a call is started only while fewer
\* than MaxCurves curves are on the surface and no call has raised.
MaxCalls == 2

MaxCurves == 4

----------------------------------------------------------------------------
(* Arithmetic helpers *)

RECURSIVE Pow10(_)
Pow10(k) == IF k <= 0 THEN 1 ELSE 10 * Pow10(k - 1)

\* floor(log10 n) for an integer n >= 1
RECURSIVE FloorLog10(_)
FloorLog10(n) == IF n < 10 THEN 0 ELSE 1 + FloorLog10(n \div 10)

RECURSIVE SeqMin(_)
SeqMin(s) == IF Len(s) = 1 THEN s[1]
             ELSE LET m == SeqMin(Tail(s)) IN IF s[1] < m THEN s[1] ELSE m

RECURSIVE SeqMax(_)
SeqMax(s) == IF Len(s) = 1 THEN s[1]
             ELSE LET m == SeqMax(Tail(s)) IN IF s[1] > m THEN s[1] ELSE m

\* np.abs of a complex number, as the squared magnitude in hundredths
abs(p) == p[1] * p[1] + p[2] * p[2]

\* np.abs of an array
AbsAll(ps) == [i \in 1..Len(ps) |-> abs(ps[i])]

\* np.floor(np.log10(m)) for the magnitude m carried as f = 100 * m^2 >= 1
FloorOfLog10(f) == (FloorLog10(f) \div 2) - 1

\* np.ceil(np.log10(m)) for the magnitude m carried as f = 100 * m^2 >= 1
CeilOfLog10(f) ==
    LET e == FloorLog10(f)
    IN  IF e % 2 = 0 /\ f = Pow10(e) THEN (e \div 2) - 1 ELSE e \div 2

----------------------------------------------------------------------------
(* Systems: the linear-system objects the module is handed *)

SysTwoPole == [op |-> "lti", name |-> "twopole",
               poles |-> << <<-10, 0>>, <<-100, 0>> >>, zeros |-> << >>,
               gain |-> 1, quarter |-> 0, fails |-> FALSE]

SysIntegrator == [op |-> "lti", name |-> "integrator",
                  poles |-> << <<0, 0>> >>, zeros |-> << >>,
                  gain |-> 10, quarter |-> -1, fails |-> FALSE]

SysGain == [op |-> "lti", name |-> "gain",
            poles |-> << >>, zeros |-> << >>,
            gain |-> 10, quarter |-> 2, fails |-> FALSE]

SysSmall == [op |-> "lti", name |-> "small",
             poles |-> << <<-3, 4>>, <<-3, -4>> >>, zeros |-> << <<0, 0>> >>,
             gain |-> 1, quarter |-> 1, fails |-> FALSE]

SysWide == [op |-> "lti", name |-> "wide",
            poles |-> << <<-250, 0>> >>, zeros |-> << <<-1, 0>> >>,
            gain |-> 100, quarter |-> 0, fails |-> FALSE]

SysBroken == [op |-> "lti", name |-> "broken",
              poles |-> << <<-10, 0>> >>, zeros |-> << >>,
              gain |-> 1, quarter |-> 0, fails |-> TRUE]

\* P*C and L*S: the product of two systems
Mul(a, b) == [op |-> "mul", left |-> a, right |-> b]

\* the scalar 1 passed to feedback
One == [op |-> "const", value |-> 1]

\* bdalg.feedback(sys1, sys2)
feedback(sys1, sys2) == [op |-> "feedback", fwd |-> sys1, loop |-> sys2]

\* whether evaluating the response of a system raises
RECURSIVE Fails(_)
Fails(sys) ==
    CASE sys.op = "lti"      -> sys.fails
      [] sys.op = "const"    -> FALSE
      [] sys.op = "mul"      -> Fails(sys.left) \/ Fails(sys.right)
      [] sys.op = "feedback" -> Fails(sys.fwd) \/ Fails(sys.loop)

\* phase of a system at a frequency, in quarter turns within -1..2: the phase
\* at 1 rad/sec is sys.quarter and it advances a quarter turn per decade
PhaseAt(sys, w) ==
    IF sys.op = "lti"
    THEN ((sys.quarter + (w.x \div (NumPoints - 1)) + w.k + 1) % 4) - 1
    ELSE [phaseOf |-> sys, at |-> w]

\* magnitude of a system at a frequency
MagAt(sys, w) ==
    IF sys.op = "lti" THEN sys.gain ELSE [magOf |-> sys, at |-> w]

\* sys.freqresp(omega): (mag, phase, omega), or an exception
freqresp(sys, omega) ==
    IF Fails(sys)
    THEN [raised |-> TRUE, mag |-> << >>, phase |-> << >>, omega |-> omega]
    ELSE [raised |-> FALSE,
          mag    |-> [i \in 1..Len(omega) |-> MagAt(sys, omega[i])],
          phase  |-> [i \in 1..Len(omega) |-> PhaseAt(sys, omega[i])],
          omega  |-> omega]

----------------------------------------------------------------------------
(* The plotting surface: matplotlib.pyplot's current figure *)

Regions == {111, 211, 212, 221, 222, 223, 224}

NoAxes == [exists |-> FALSE, xlabel |-> "", ylabel |-> "",
           grid |-> FALSE, minor |-> FALSE, hold |-> TRUE]

EmptyFigure == [cur |-> 0, axes |-> [r \in Regions |-> NoAxes], curves |-> << >>]

\* the quadrants of the figure a subplot region covers
RegionCells(r) ==
    CASE r = 111 -> {1, 2, 3, 4}
      [] r = 211 -> {1, 2}
      [] r = 212 -> {3, 4}
      [] r = 221 -> {1}
      [] r = 222 -> {2}
      [] r = 223 -> {3}
      [] r = 224 -> {4}

\* two distinct regions overlap beyond sharing a boundary
Overlaps(a, b) == a # b /\ RegionCells(a) \cap RegionCells(b) # {}

\* the libraries a run may have
LibBuilds == [hold : BOOLEAN, overlap : BOOLEAN]

\* plt.subplot(r): r becomes the current axes; where the library applies the
\* overlap rule, the axes overlapping r are removed with their curves
subplot(st, r) ==
    LET gone == IF lib.overlap
                THEN {o \in Regions : st.axes[o].exists /\ Overlaps(o, r)}
                ELSE {}
    IN  [cur    |-> r,
         axes   |-> [o \in Regions |->
                       IF o = r THEN [st.axes[r] EXCEPT !.exists = TRUE]
                       ELSE IF o \in gone THEN NoAxes ELSE st.axes[o]],
         curves |-> SelectSeq(st.curves, LAMBDA c : c.region \notin gone)]

\* plt.gca(): the current axes, created when there are none
gca(st) ==
    IF st.cur = 0 THEN [st EXCEPT !.cur = 111, !.axes[111].exists = TRUE] ELSE st

\* plt.plot / plt.loglog / plt.semilogx on the current axes
draw(st, fn, x, y, fmt) ==
    LET s == gca(st)
    IN  [s EXCEPT !.curves = Append(@, [region |-> s.cur, fn |-> fn,
                                        x |-> x, y |-> y, fmt |-> fmt])]

ylabel(st, text) == LET s == gca(st) IN [s EXCEPT !.axes[s.cur].ylabel = text]

xlabel(st, text) == LET s == gca(st) IN [s EXCEPT !.axes[s.cur].xlabel = text]

\* plt.grid(True) followed by plt.grid(True, which='minor')
grid(st) ==
    LET s == gca(st)
    IN  [s EXCEPT !.axes[s.cur].grid = TRUE, !.axes[s.cur].minor = TRUE]

\* plt.hold(True): an AttributeError where the library has no hold
hold(st) ==
    IF lib.hold
    THEN LET s == gca(st)
         IN  [raised |-> FALSE, plt |-> [s EXCEPT !.axes[s.cur].hold = TRUE]]
    ELSE [raised |-> TRUE, plt |-> st]

----------------------------------------------------------------------------
(* Default frequency range selection (bode, lines 93-112) *)

\* the omega argument: None, or a vector of frequencies in rad/sec
None == [absent |-> TRUE, pts |-> << >>]

Given(pts) == [absent |-> FALSE, pts |-> pts]

\* scipy.logspace(lo, hi): NumPoints points from 10^lo to 10^hi
logspace(lo, hi) ==
    [i \in 1..NumPoints |-> [x |-> (NumPoints - 1) * lo + (i - 1) * (hi - lo), k |-> 0]]

\* the loop of lines 96-99: abs of every pole and zero of every system
RECURSIVE CollectFeatures(_)
CollectFeatures(syslist) ==
    IF Len(syslist) = 0 THEN << >>
    ELSE AbsAll(syslist[1].poles) \o AbsAll(syslist[1].zeros)
         \o CollectFeatures(Tail(syslist))

\* features[features != 0]
DropOrigin(features) == SelectSeq(features, LAMBDA f : f # 0)

\* AtLeastOne without the fallback
MutAtLeastOneNone(features) == features

\* AtLeastOne falling back to the feature 10 instead of 1
MutAtLeastOneTen(features) == IF Len(features) = 0 THEN << 10000 >> ELSE features

\* if (features.shape[0] == 0): features = [1]
AtLeastOne(features) == IF Len(features) = 0 THEN << 100 >> ELSE features

\* LowerExponent without the decade of margin
MutLowerExponent(features) == FloorOfLog10(SeqMin(features))

\* np.floor(np.min(np.log10(features))) - 1
LowerExponent(features) == FloorOfLog10(SeqMin(features)) - 1

\* UpperExponent without the decade of margin
MutUpperExponent(features) == CeilOfLog10(SeqMax(features))

\* np.ceil(np.max(np.log10(features))) + 1
UpperExponent(features) == CeilOfLog10(SeqMax(features)) + 1

\* lines 93-112; np.min of an empty array raises
DefaultOmega(syslist) ==
    LET features == AtLeastOne(DropOrigin(CollectFeatures(syslist)))
    IN  IF Len(features) = 0
        THEN [raised |-> TRUE, omega |-> << >>]
        ELSE [raised |-> FALSE,
              omega  |-> logspace(LowerExponent(features), UpperExponent(features))]

----------------------------------------------------------------------------
(* bode (lines 50-154) *)

\* lines 81-82: a single system becomes a one-element list
Normalize(arg) == IF arg.iter THEN arg.obj ELSE << arg.obj >>

\* omega/(2*sp.pi)
ToHz(omega) == [i \in 1..Len(omega) |-> [x |-> omega[i].x, k |-> omega[i].k - 1]]

\* 20*sp.log10(mag), for magnitudes that are powers of ten
Decibel(mag) == [i \in 1..Len(mag) |-> 20 * FloorLog10(mag[i])]

\* phase*180/sp.pi, the phase being held in quarter turns
Degrees(phase) == [i \in 1..Len(phase) |-> 90 * phase[i]]

\* ctrlutil.unwrap(angle, period), from index k on
RECURSIVE UnwrapFrom(_, _, _, _, _)
UnwrapFrom(angle, period, k, wrap, prev) ==
    IF k > Len(angle) THEN << >>
    ELSE LET d == prev - angle[k]
             a == IF d < 0 THEN -d ELSE d
             w == IF 2 * a > period
                  THEN wrap + period * ((2 * d + period) \div (2 * period))
                  ELSE wrap
         IN  << angle[k] + w >> \o UnwrapFrom(angle, period, k + 1, w, angle[k])

unwrap(angle, period) ==
    IF Len(angle) = 0 THEN angle ELSE UnwrapFrom(angle, period, 1, 0, angle[1])

\* the frequencies plotted for a system whose response came back at omega
PlottedOmega(omega, Hz) == IF Hz THEN ToHz(omega) ELSE omega

\* lines 125-152: the magnitude and the phase plot of one system; the call
\* of plt.hold at line 136 ends them where the library has no hold
BodePlots(st, omega, mag, phase, dB, Hz) ==
    LET m1 == subplot(st, 211)
        m2 == IF dB THEN ylabel(draw(m1, "semilogx", omega, mag, ""), "Magnitude (dB)")
                    ELSE ylabel(draw(m1, "loglog", omega, mag, ""), "Magnitude")
        m3 == hold(grid(m2))
    IN  IF m3.raised THEN m3
        ELSE LET p1 == subplot(m3.plt, 212)
                 p2 == hold(draw(p1, "semilogx", omega, phase, ""))
             IN  IF p2.raised THEN p2
                 ELSE LET p3 == ylabel(grid(p2.plt), "Phase (deg)")
                      IN  [raised |-> FALSE,
                           plt |-> xlabel(p3, IF Hz THEN "Frequency (Hz)"
                                                    ELSE "Frequency (rad/sec)")]

\* the omega the loop carries into its next iteration (lines 116-117)
NextOmega(omega, Hz) == PlottedOmega(omega, Hz)

\* the loop of lines 114-152 from the i-th system on
RECURSIVE BodeLoop(_, _, _, _, _, _, _)
BodeLoop(syslist, i, omega, dB, Hz, st, qs) ==
    IF i > Len(syslist)
    THEN [plt |-> st, queries |-> qs, raised |-> FALSE, error |-> ""]
    ELSE LET r  == freqresp(syslist[i], omega)
             q2 == Append(qs, [sys |-> syslist[i], omega |-> omega])
         IN  IF r.raised
             THEN [plt |-> st, queries |-> q2, raised |-> TRUE, error |-> "freqresp"]
             ELSE LET mag   == IF dB THEN Decibel(r.mag) ELSE r.mag
                      phase == unwrap(Degrees(r.phase), 360)
                      s2    == BodePlots(st, PlottedOmega(r.omega, Hz), mag, phase, dB, Hz)
                  IN  IF s2.raised
                      THEN [plt |-> s2.plt, queries |-> q2, raised |-> TRUE,
                            error |-> "AttributeError"]
                      ELSE BodeLoop(syslist, i + 1, NextOmega(r.omega, Hz), dB, Hz,
                                    s2.plt, q2)

\* the handle pair of line 154
BodeHandles == << 211, 212 >>

\* bode restoring the surface it was given when a response fails
MutBodeRollback(st, arg, omega, dB, Hz) ==
    LET syslist == Normalize(arg)
        sel     == IF omega.absent THEN DefaultOmega(syslist)
                   ELSE [raised |-> FALSE, omega |-> omega.pts]
    IN  IF sel.raised
        THEN [plt |-> st, queries |-> << >>, raised |-> TRUE, error |-> "ValueError",
              value |-> << >>]
        ELSE LET r == BodeLoop(syslist, 1, sel.omega, dB, Hz, st, << >>)
             IN  [plt |-> IF r.raised THEN st ELSE r.plt,
                  queries |-> r.queries, raised |-> r.raised, error |-> r.error,
                  value |-> IF r.raised THEN << >> ELSE BodeHandles]

bode(st, arg, omega, dB, Hz) ==
    LET syslist == Normalize(arg)
        sel     == IF omega.absent THEN DefaultOmega(syslist)
                   ELSE [raised |-> FALSE, omega |-> omega.pts]
    IN  IF sel.raised
        THEN [plt |-> st, queries |-> << >>, raised |-> TRUE, error |-> "ValueError",
              value |-> << >>]
        ELSE LET r == BodeLoop(syslist, 1, sel.omega, dB, Hz, st, << >>)
             IN  [plt |-> r.plt, queries |-> r.queries, raised |-> r.raised,
                  error |-> r.error,
                  value |-> IF r.raised THEN << >> ELSE BodeHandles]

----------------------------------------------------------------------------
(* nyquist (lines 157-195) *)

\* sp.cos and sp.sin of an angle held in quarter turns
Cos(q) == CASE q % 4 = 0 -> 1 [] q % 4 = 1 -> 0 [] q % 4 = 2 -> -1 [] q % 4 = 3 -> 0

Sin(q) == CASE q % 4 = 0 -> 0 [] q % 4 = 1 -> 1 [] q % 4 = 2 -> 0 [] q % 4 = 3 -> -1

\* sp.multiply(mag, sp.cos(phase)) and sp.multiply(mag, sp.sin(phase))
PrimaryX(mag, phase) == [i \in 1..Len(mag) |-> mag[i] * Cos(phase[i])]

PrimaryY(mag, phase) == [i \in 1..Len(mag) |-> mag[i] * Sin(phase[i])]

\* Negate that leaves y as it is
MutNegate(y) == y

\* -y
Negate(y) == [i \in 1..Len(y) |-> -y[i]]


\* lines 180-181 and 222-223: the sweep used when none is given
FixedOmega == logspace(-2, 2)

\* lines 191-195
NyquistPlots(st, x, y) ==
    draw(draw(draw(st, "plot", x, y, "-"), "plot", x, Negate(y), "--"),
         "plot", << -1 >>, << 0 >>, "+k")

nyquist(st, sys, omega) ==
    LET om == IF omega.absent THEN FixedOmega ELSE omega.pts
        r  == freqresp(sys, om)
        qs == << [sys |-> sys, omega |-> om] >>
    IN  IF r.raised
        THEN [plt |-> st, queries |-> qs, raised |-> TRUE]
        ELSE [plt |-> NyquistPlots(st, PrimaryX(r.mag, r.phase), PrimaryY(r.mag, r.phase)),
              queries |-> qs, raised |-> FALSE]

----------------------------------------------------------------------------
(* gangof4 (lines 198-242) *)

\* the four transfer functions of lines 226-241, in plotting order
GangSystems(P, C) ==
    LET L == Mul(P, C)
        S == feedback(One, L)
        T == Mul(L, S)
    IN  << T, Mul(P, S), Mul(C, S), S >>

\* GangCells with the two off-diagonal cells exchanged
MutGangCells == << 221, 223, 222, 224 >>

\* the subplot cells of lines 233-242, in plotting order
GangCells == << 221, 222, 223, 224 >>

\* lines 232-242 from the i-th transfer function on
RECURSIVE GangLoop(_, _, _, _, _)
GangLoop(systems, i, omega, st, qs) ==
    IF i > Len(systems)
    THEN [plt |-> st, queries |-> qs, raised |-> FALSE]
    ELSE LET r  == freqresp(systems[i], omega)
             q2 == Append(qs, [sys |-> systems[i], omega |-> omega])
         IN  IF r.raised
             THEN [plt |-> st, queries |-> q2, raised |-> TRUE]
             ELSE GangLoop(systems, i + 1, r.omega,
                           draw(subplot(st, GangCells[i]), "loglog", r.omega, r.mag, ""),
                           q2)

gangof4(st, P, C, omega) ==
    GangLoop(GangSystems(P, C), 1,
             IF omega.absent THEN FixedOmega ELSE omega.pts, st, << >>)

----------------------------------------------------------------------------
(* The calls a client makes *)

TwoPi == [x |-> 0, k |-> 1]

TwentyPi == [x |-> NumPoints - 1, k |-> 1]

Omegas == {None, Given(<< TwoPi, TwentyPi >>)}

BodeSingles == {SysTwoPole}

BodeLists == { << >>, << SysGain, SysIntegrator >>, << SysSmall, SysWide >>,
               << SysTwoPole, SysBroken, SysWide >> }

BodeArgs == {[iter |-> FALSE, obj |-> s] : s \in BodeSingles}
            \cup {[iter |-> TRUE, obj |-> l] : l \in BodeLists}

NyquistSystems == {SysTwoPole, SysBroken}

GangPairs == { << SysTwoPole, SysGain >>, << SysBroken, SysGain >> }

Init ==
    /\ plt = EmptyFigure
    /\ queries = << >>
    /\ last = [op |-> "none", args |-> << >>, raised |-> FALSE, error |-> "",
               value |-> << >>]
    /\ ncalls = 0
    /\ lib \in LibBuilds

\* the client makes another call: an exception that reaches the client ends it
CanCall == ~last.raised /\ ncalls < MaxCalls /\ Len(plt.curves) < MaxCurves

Bode ==
    /\ CanCall
    /\ ncalls' = ncalls + 1
    /\ lib' = lib
    /\ \E arg \in BodeArgs, omega \in Omegas, dB \in BOOLEAN, Hz \in BOOLEAN :
         LET r == bode(plt, arg, omega, dB, Hz)
         IN  /\ plt' = r.plt
             /\ queries' = r.queries
             /\ last' = [op |-> "bode",
                         args |-> [syslist |-> arg, omega |-> omega, dB |-> dB, Hz |-> Hz],
                         raised |-> r.raised, error |-> r.error, value |-> r.value]

Nyquist ==
    /\ CanCall
    /\ ncalls' = ncalls + 1
    /\ lib' = lib
    /\ \E sys \in NyquistSystems, omega \in Omegas :
         LET r == nyquist(plt, sys, omega)
         IN  /\ plt' = r.plt
             /\ queries' = r.queries
             /\ last' = [op |-> "nyquist", args |-> [sys |-> sys, omega |-> omega],
                         raised |-> r.raised,
                         error |-> IF r.raised THEN "freqresp" ELSE "",
                         value |-> << >>]

Gangof4 ==
    /\ CanCall
    /\ ncalls' = ncalls + 1
    /\ lib' = lib
    /\ \E pc \in GangPairs, omega \in Omegas :
         LET r == gangof4(plt, pc[1], pc[2], omega)
         IN  /\ plt' = r.plt
             /\ queries' = r.queries
             /\ last' = [op |-> "gangof4",
                         args |-> [P |-> pc[1], C |-> pc[2], omega |-> omega],
                         raised |-> r.raised,
                         error |-> IF r.raised THEN "freqresp" ELSE "",
                         value |-> << >>]

Next == Bode \/ Nyquist \/ Gangof4

Spec == Init /\ [][Next]_vars

----------------------------------------------------------------------------
(* Vocabulary of the properties *)

IsPrefix(s, t) == Len(s) <= Len(t) /\ SubSeq(t, 1, Len(s)) = s

\* the last n elements of a sequence
Suffix(s, n) == SubSeq(s, Len(s) - n + 1, Len(s))

\* the number of curves of a sequence that lie in a region
RECURSIVE InRegion(_, _)
InRegion(curves, region) ==
    IF Len(curves) = 0 THEN 0
    ELSE (IF curves[1].region = region THEN 1 ELSE 0) + InRegion(Tail(curves), region)

\* the systems of the last bode call, as a list
LastSystems == Normalize(last.args.syslist)

\* the squared magnitudes of the poles and zeros of a list of systems
FeatureSet(syslist) ==
    UNION {{abs(syslist[j].poles[i]) : i \in 1..Len(syslist[j].poles)}
           \cup {abs(syslist[j].zeros[i]) : i \in 1..Len(syslist[j].zeros)}
           : j \in 1..Len(syslist)}

\* the last bode call had to derive its sweep and queried a system with it
BodeDerived == last.op = "bode" /\ last.args.omega.absent /\ Len(queries) >= 1

\* the sweep runs from 10^lo to 10^hi rad/sec
Spans(omega, lo, hi) ==
    /\ Len(omega) = NumPoints
    /\ omega[1] = [x |-> (NumPoints - 1) * lo, k |-> 0]
    /\ omega[Len(omega)] = [x |-> (NumPoints - 1) * hi, k |-> 0]

\* the number of systems the last bode call plotted
Plotted == IF last.raised THEN Len(queries) - 1 ELSE Len(queries)

----------------------------------------------------------------------------
(* C1 *)

\* C1: when bode derives its sweep, the sweep starts at an integer power of
\* ten that is at most m/10 and ends at one that is at least 10*m, for every
\* non-zero pole or zero magnitude m of every system of the collection.
C1_DecadeMargin ==
    BodeDerived =>
        LET omega == queries[1].omega
            lo    == omega[1].x \div (NumPoints - 1)
            hi    == omega[Len(omega)].x \div (NumPoints - 1)
        IN  /\ Spans(omega, lo, hi)
            /\ \A f \in FeatureSet(LastSystems) \ {0} :
                 /\ Pow10(2 * lo + 4) <= f
                 /\ hi >= 0 /\ Pow10(2 * hi) >= f

C1_Witness ==
    /\ BodeDerived
    /\ Len(LastSystems) = 2
    /\ \E f \in FeatureSet(LastSystems) : f # 0 /\ f < 100
    /\ \E f \in FeatureSet(LastSystems) : f > 100

----------------------------------------------------------------------------
(* C2 *)

\* the last call was bode on the system with poles -1 and -10, no sweep given
TwoPoleDerived == BodeDerived /\ LastSystems = << SysTwoPole >>

\* C2 as stated: the derived sweep of the system with poles {-1, -10} runs
\* from 0.01 to 100 rad/sec.
C2_Original == TwoPoleDerived => Spans(queries[1].omega, -2, 2)

\* C2 amended: the derived sweep of the system with poles {-1, -10} runs from
\* 0.1 to 100 rad/sec.
C2_TwoPoleSweep == TwoPoleDerived => Spans(queries[1].omega, -1, 2)

C2_Witness == TwoPoleDerived /\ ~last.raised /\ Len(plt.curves) >= 2

----------------------------------------------------------------------------
(* C3 *)

\* the last call was nyquist or gangof4 with no sweep given
FixedCase == last.op \in {"nyquist", "gangof4"} /\ last.args.omega.absent

\* the sweep bode would derive for the systems handed to the last call
BodeWouldDerive ==
    DefaultOmega(IF last.op = "nyquist" THEN << last.args.sys >>
                 ELSE << last.args.P, last.args.C >>).omega

\* C3: without a sweep, nyquist and gangof4 query the response at
\* the sweep bode's range selector derives from the poles and zeros.
C3_Original ==
    FixedCase => \A j \in 1..Len(queries) : queries[j].omega = BodeWouldDerive

----------------------------------------------------------------------------
(* C4 *)

\* the rad/sec sweep of the last bode call
BodeSweep == IF last.args.omega.absent THEN queries[1].omega ELSE last.args.omega.pts

\* x is omega divided by 2*pi exactly once
OnceHz(x, omega) ==
    /\ Len(x) = Len(omega)
    /\ \A i \in 1..Len(omega) : x[i] = [x |-> omega[i].x, k |-> omega[i].k - 1]

\* C4: with Hz set, every system of the collection is queried at the rad/sec
\* sweep, and its two curves are plotted against that sweep divided by 2*pi
\* exactly once.
C4_HzEverySystem ==
    (last.op = "bode" /\ last.args.Hz) =>
        LET added == Suffix(plt.curves, 2 * Plotted)
        IN  \A j \in 1..Len(queries) :
              /\ queries[j].omega = BodeSweep
              /\ j <= Plotted => /\ OnceHz(added[2 * j - 1].x, BodeSweep)
                                 /\ OnceHz(added[2 * j].x, BodeSweep)

----------------------------------------------------------------------------
(* C5 *)

\* C5: when bode derives its sweep and no system has a pole or zero off the
\* origin, the sweep runs from 0.1 to 10 rad/sec.
C5_FallbackSweep ==
    (BodeDerived /\ FeatureSet(LastSystems) \subseteq {0}) =>
        Spans(queries[1].omega, -1, 1)

C5_Witness ==
    /\ BodeDerived /\ ~last.raised
    /\ Len(LastSystems) = 2
    /\ FeatureSet(LastSystems) = {0}
    /\ \E j \in 1..2 : Len(LastSystems[j].poles) = 0

----------------------------------------------------------------------------
(* C6 *)

\* the last call was bode on an empty collection
EmptyBode == last.op = "bode" /\ Len(LastSystems) = 0

\* C6 as stated: bode on an empty collection ends in an error and returns no
\* handle pair.
C6_Original == EmptyBode => (last.raised /\ last.value # BodeHandles)

\* C6 amended: bode on an empty collection queries no response, draws nothing
\* and returns the handle pair (211, 212) normally.
C6_EmptyReturns ==
    [][ EmptyBode' => /\ ~last'.raised
                      /\ last'.value = << 211, 212 >>
                      /\ queries' = << >>
                      /\ plt' = plt ]_vars

C6_Witness == EmptyBode /\ last.args.omega.absent /\ last.value = << 211, 212 >>

----------------------------------------------------------------------------
(* C7 *)

\* the last call was nyquist and its response came back
NyquistDone == last.op = "nyquist" /\ ~last.raised

\* C7: nyquist draws the primary curve, its mirror and the marker at (-1, 0);
\* both curves have one point per point of the sweep the response came back
\* at, the primary point being (mag*cos(phase), mag*sin(phase)) and the mirror
\* point at the same index the same x with the opposite y.
C7_Mirror ==
    NyquistDone =>
        LET added   == Suffix(plt.curves, 3)
            primary == added[1]
            mirror  == added[2]
            marker  == added[3]
            r       == freqresp(queries[1].sys, queries[1].omega)
            n       == Len(r.omega)
        IN  /\ Len(plt.curves) >= 3
            /\ Len(primary.x) = n /\ Len(primary.y) = n
            /\ Len(mirror.x) = n /\ Len(mirror.y) = n
            /\ \A i \in 1..n :
                 /\ primary.x[i] = r.mag[i] * Cos(r.phase[i])
                 /\ primary.y[i] = r.mag[i] * Sin(r.phase[i])
                 /\ mirror.x[i] = primary.x[i]
                 /\ mirror.y[i] = 0 - primary.y[i]
            /\ marker.x = << -1 >> /\ marker.y = << 0 >>

C7_Witness ==
    /\ NyquistDone
    /\ Len(plt.curves) >= 3
    /\ LET primary == Suffix(plt.curves, 3)[1]
       IN  /\ Len(primary.y) = NumPoints
           /\ \E i \in 1..Len(primary.y) : primary.y[i] > 0
           /\ \E i \in 1..Len(primary.y) : primary.y[i] < 0

----------------------------------------------------------------------------
(* C8 *)

\* the last call was gangof4 and every response came back
GangDone == last.op = "gangof4" /\ ~last.raised

\* C8: gangof4 draws exactly four magnitude curves, one more in each of the
\* cells 221-224: T = L*S in cell 221, P*S in 222, C*S in 223 and
\* S = feedback(1, L) in 224, with L = P*C, all four evaluated and plotted on
\* the same sweep.
C8_FourCells ==
    [][ GangDone' =>
          LET P     == last'.args.P
              C     == last'.args.C
              L     == [op |-> "mul", left |-> P, right |-> C]
              S     == [op |-> "feedback", fwd |-> One, loop |-> L]
              T     == [op |-> "mul", left |-> L, right |-> S]
              PS    == [op |-> "mul", left |-> P, right |-> S]
              CS    == [op |-> "mul", left |-> C, right |-> S]
              added == Suffix(plt'.curves, 4)
              omega == queries'[1].omega
              Cell(c, sys, region) ==
                  /\ c.region = region /\ c.fn = "loglog" /\ c.x = omega
                  /\ Len(c.y) = Len(omega)
                  /\ \A i \in 1..Len(omega) : c.y[i] = [magOf |-> sys, at |-> omega[i]]
          IN  /\ Len(plt'.curves) >= 4
              /\ \A r \in {221, 222, 223, 224} :
                   InRegion(plt'.curves, r) = InRegion(plt.curves, r) + 1
              /\ Len(queries') = 4
              /\ \A j \in 1..4 : queries'[j].omega = omega
              /\ Cell(added[1], T, 221) /\ Cell(added[2], PS, 222)
              /\ Cell(added[3], CS, 223) /\ Cell(added[4], S, 224) ]_vars

C8_Witness ==
    /\ GangDone
    /\ Len(queries) = 4
    /\ Len(plt.curves) >= 4
    /\ Suffix(plt.curves, 4)[1].region = 221

----------------------------------------------------------------------------
(* C9 *)

\* C9: no call removes a curve an earlier call drew, and a bode call over n
\* systems whose responses all come back adds exactly n curves to region 211
\* and n to region 212 and returns the pair (211, 212).
C9_AppendOnly ==
    [][ /\ IsPrefix(plt.curves, plt'.curves)
        /\ (last'.op = "bode" /\ last'.error # "freqresp") =>
             LET n     == Len(Normalize(last'.args.syslist))
                 added == SubSeq(plt'.curves, Len(plt.curves) + 1, Len(plt'.curves))
             IN  /\ ~last'.raised
                 /\ Len(added) = 2 * n
                 /\ InRegion(added, 211) = n
                 /\ InRegion(added, 212) = n
                 /\ last'.value = << 211, 212 >> ]_vars

----------------------------------------------------------------------------
(* C10 *)

\* C10: when the response of the k-th system of a bode call fails, the call
\* raises and returns no handles, no system after the k-th is queried, and
\* the curves the call added, which end the surface, are the magnitude and
\* phase curves of systems 1..k-1: k-1 more in region 211 and in region 212.
C10_FailureKeepsEarlier ==
    [][ (last'.op = "bode" /\ last'.error = "freqresp") =>
          LET syslist == Normalize(last'.args.syslist)
              k       == Len(queries')
              added   == Suffix(plt'.curves, 2 * (k - 1))
          IN  /\ last'.raised /\ last'.value = << >>
              /\ k >= 1 /\ k <= Len(syslist)
              /\ \A j \in 1..k : queries'[j].sys = syslist[j]
              /\ syslist[k].fails
              /\ \A j \in 1..(k - 1) : ~syslist[j].fails
              /\ Len(plt'.curves) >= 2 * (k - 1)
              /\ InRegion(plt'.curves, 211) = InRegion(plt.curves, 211) + (k - 1)
              /\ InRegion(plt'.curves, 212) = InRegion(plt.curves, 212) + (k - 1)
              /\ \A j \in 1..(k - 1) :
                   /\ added[2 * j - 1].region = 211
                   /\ added[2 * j].region = 212
                   /\ Len(added[2 * j - 1].y) = Len(queries'[j].omega)
                   /\ Len(added[2 * j].y) = Len(queries'[j].omega) ]_vars

C10_Witness ==
    /\ last.op = "bode" /\ last.raised /\ last.error = "freqresp"
    /\ Len(queries) = 2
    /\ Len(LastSystems) = 3
    /\ Len(plt.curves) >= 2
    /\ plt.curves[Len(plt.curves)].region = 212

====
